---- MODULE Spec2Model ----
(***************************************************************************)
(* Credit-mutation engine of recircle-singapore (src/script.js, server     *)
(* part, and src/backend/schema.sql).                                      *)
(*                                                                         *)
(* Each request r is one run of POST /api/credits/add or                   *)
(* POST /api/credits/deduct: the middleware chain auth -> writeLimiter ->  *)
(* requireTimestamp, then the handler, whose database statements are the   *)
(* interleaving points (every `await client.query`).  The database is      *)
(* PostgreSQL at READ COMMITTED: `select .. for update` takes the row      *)
(* lock, the primary key of requests rejects a second insert of a key, and *)
(* the foreign keys of requests take a key-share lock on the referenced    *)
(* users rows.  writeLimiter (60 writes a minute) always calls next() for  *)
(* the handful of requests of a run, so it is not a step of its own.       *)
(* A request can also be a run of GET /api/qr, which issues a scan token.  *)
(*                                                                         *)
(* The browser part of src/script.js (the localStorage demo) shares no     *)
(* state with the service; it is modelled by its own variables and its own *)
(* specification, SpecDemo.                                                *)
(***************************************************************************)
EXTENDS Integers, FiniteSets, Sequences, TLC

\* ----- bounds -----
NumReq == 2                      \* concurrent requests in a run
MaxFaults == 1                   \* storage failures in a run
NumDash == 2                     \* browser demo: dashboards loaded at a time
MaxPoints == 20                  \* browser demo: add-points stops here
Reqs == 1..NumReq

\* ----- program constants -----
TIMESTAMP_SKEW_MS == 5 * 60 * 1000
TOKEN_ROLES_ADD == {"KIOSK", "ADMIN"}
TOKEN_ROLES_DEDUCT == {"MERCHANT", "ADMIN"}
TOKEN_ROLES_QR == {"USER"}
AllowedAmounts == {10, 20, 30}

\* ----- the users table: id is the row's position (serial), roles as the
\* check constraint of schema.sql allows them -----
users ==
  << [username |-> "alice", role |-> "USER"],
     [username |-> "kiosk", role |-> "KIOSK"],
     [username |-> "merch", role |-> "MERCHANT"],
     [username |-> "admin", role |-> "ADMIN"],
     [username |-> "bob", role |-> "USER"] >>
UserIds == DOMAIN users
NoUser == 0

IdOf(username) ==
  IF \E i \in UserIds : users[i].username = username
  THEN CHOOSE i \in UserIds : users[i].username = username
  ELSE NoUser

\* ----- tokens -----
\* A JWT is its algorithm/key class, its claims and whether verification of
\* signature and expiry would succeed ("ok"), or fail because it is expired
\* or because the payload was changed after signing ("tampered").
NoToken == [alg |-> "none", sub |-> 0, name |-> "", role |-> "", typ |-> "", state |-> "ok"]

signAuthToken(id) ==
  [alg |-> "HS256", sub |-> id, name |-> users[id].username,
   role |-> users[id].role, typ |-> "", state |-> "ok"]

signQrToken(username) ==
  [alg |-> "RS256", sub |-> 0, name |-> username, role |-> "", typ |-> "QR", state |-> "ok"]

Expired(tok) == [tok EXCEPT !.state = "expired"]
Tampered(tok) == [tok EXCEPT !.state = "tampered"]

\* jwt.verify(token, key, {algorithms: [alg]}): the key class is the algorithm
jwtVerify(tok, alg) == tok.alg = alg /\ tok.state = "ok"


\* ----- middleware -----
Ok == [status |-> 0, error |-> ""]
Fail(code, msg) == [status |-> code, error |-> msg]

\* auth without the role check
authAnyRole(requiredRoles, tok) ==
  IF tok.alg = "none" THEN Fail(401, "Missing token")
  ELSE IF ~jwtVerify(tok, "HS256") THEN Fail(401, "Invalid token")
  ELSE Ok

\* auth(requiredRoles): no bearer token, a token that does not verify under
\* JWT_SECRET, a role outside requiredRoles, else next()
auth(requiredRoles, tok) ==
  IF tok.alg = "none" THEN Fail(401, "Missing token")
  ELSE IF ~jwtVerify(tok, "HS256") THEN Fail(401, "Invalid token")
  ELSE IF requiredRoles # {} /\ tok.role \notin requiredRoles THEN Fail(403, "Forbidden")
  ELSE Ok

RequiredRoles(k) == IF k = "ADD" THEN TOKEN_ROLES_ADD ELSE TOKEN_ROLES_DEDUCT

\* The X-Request-Timestamp header: absent, a string Date cannot parse, or an
\* instant; age is Date.now() - t in milliseconds (negative: in the future).
Abs(x) == IF x < 0 THEN -x ELSE x

\* requireTimestamp without Math.abs: only old requests are stale
requireTimestampPastOnly(hdr) ==
  IF hdr.cls = "missing" THEN Fail(400, "Missing X-Request-Timestamp")
  ELSE IF hdr.cls = "nan" THEN Fail(400, "Bad timestamp")
  ELSE IF hdr.age > TIMESTAMP_SKEW_MS THEN Fail(400, "Stale/early request")
  ELSE Ok

requireTimestamp(hdr) ==
  IF hdr.cls = "missing" THEN Fail(400, "Missing X-Request-Timestamp")
  ELSE IF hdr.cls = "nan" THEN Fail(400, "Bad timestamp")
  ELSE IF Abs(hdr.age) > TIMESTAMP_SKEW_MS THEN Fail(400, "Stale/early request")
  ELSE Ok

\* changeSchema.validate(body): amount one of 10, 20, 30 and exactly one of
\* userToken / targetUsername.  "" is the message of a valid body.
HasToken(body) == body.userToken.alg # "none"
HasUsername(body) == body.targetUsername # ""

\* changeSchema with or() in place of xor(): both target fields pass
changeSchemaOr(body) ==
  IF body.amount \notin AllowedAmounts THEN "amount must be one of [10, 20, 30]"
  ELSE IF ~HasToken(body) /\ ~HasUsername(body) THEN "or userToken targetUsername"
  ELSE ""

changeSchema(body) ==
  IF body.amount \notin AllowedAmounts THEN "amount must be one of [10, 20, 30]"
  ELSE IF HasToken(body) = HasUsername(body) THEN "xor userToken targetUsername"
  ELSE ""

\* readIdempotencyKey wrapped by the handler: the header, or null ("")
readIdempotencyKey(hdr) == hdr

\* ----- inputs -----
Kinds == {"ADD", "DEDUCT"}

AuthInputs ==
  {NoToken}
    \cup {signAuthToken(i) : i \in UserIds}
    \cup {Expired(signAuthToken(2)),
          Tampered([signAuthToken(1) EXCEPT !.role = "ADMIN"]),
          signQrToken("alice")}

UnreadTs == [cls |-> "unread", age |-> 0]
NoTs == [cls |-> "missing", age |-> 0]
Ages == {-(TIMESTAMP_SKEW_MS + 1), -TIMESTAMP_SKEW_MS, TIMESTAMP_SKEW_MS,
         TIMESTAMP_SKEW_MS + 1, 2 * TIMESTAMP_SKEW_MS}
TsInputs == {NoTs, [cls |-> "nan", age |-> 0]} \cup {[cls |-> "date", age |-> a] : a \in Ages}

\* Request bodies and Idempotency-Key headers (requests.id is of type uuid).
\* Every allowed amount against alice by username and one amount against each
\* other account that resolves, each under both keys; one body for each way
\* resolution fails; the malformed and the missing key; and one body for
\* each way validation fails.
NoBody == [amount |-> 0, targetUsername |-> "", userToken |-> NoToken]
Body(a, u, t) == [amount |-> a, targetUsername |-> u, userToken |-> t]

ResolvingBodies ==
  {Body(a, "alice", NoToken) : a \in AllowedAmounts}
    \cup {Body(10, "", signQrToken("alice")), Body(10, "kiosk", NoToken),
          Body(10, "admin", NoToken)}
BadQrInputs == {Expired(signQrToken("alice")),
                Tampered([signQrToken("alice") EXCEPT !.name = "kiosk"]),
                signAuthToken(1),
                [signQrToken("alice") EXCEPT !.typ = ""]}
UnresolvingBodies == {Body(10, "ghost", NoToken)} \cup {Body(10, "", t) : t \in BadQrInputs}
InvalidBodies ==
  {Body(15, "alice", NoToken), Body(0, "alice", NoToken),
   Body(10, "alice", signQrToken("alice")), Body(10, "", NoToken)}

Uuids == {"k1", "k2"}
HandlerInput(b, k) == [body |-> b, key |-> k]
HandlerInputs ==
  {HandlerInput(b, k) : b \in ResolvingBodies \cup UnresolvingBodies, k \in Uuids}
    \cup {HandlerInput(Body(10, "alice", NoToken), k) : k \in {"not-a-uuid", ""}}
    \cup {HandlerInput(b, "k2") : b \in InvalidBodies}

\* ----- state -----
VARIABLES
  credits,     \* users.credits, committed, by user id
  requests,    \* the requests table, committed rows
  rowLock,     \* by user id: the transaction holding the row FOR UPDATE, or 0
  keyShare,    \* by user id: the transactions holding the row FOR KEY SHARE
  pend,        \* by request: the row version its UPDATE wrote, uncommitted
  ins,         \* by request: the rows its INSERT wrote, uncommitted
  pc,          \* by request: the statement it is at
  kind,        \* by request: the route: "ADD", "DEDUCT" or "QR"
  hdr,         \* by request: the Authorization bearer token
  ts,          \* by request: the X-Request-Timestamp header requireTimestamp
               \* read, until the handler takes over
  user,        \* by request: req.user.sub
  value,       \* by request: the validated body
  idem,        \* by request: idempotencyKey
  target,      \* by request: the row getTargetByTokenOrUsername returned
  status,      \* by request: the response status, 0 before the response
  error,       \* by request: the response's error message / the exception caught
  conn,        \* by request: its pool client: "none", "held", "lost" (held, its
               \* connection gone), "released"
  began,       \* by request: BEGIN was issued
  committed,   \* by request: its transaction is durable
  initial,     \* the requests table of the initial state
  faults,      \* storage failures so far
  issued,      \* by request: the token GET /api/qr returned to it
  recircle_users,          \* browser demo, localStorage: points by username
  recircle_current_user,   \* browser demo, localStorage: who is logged in
  dash         \* browser demo, by dashboard: what its loadDashboard closed over

dbVars == <<credits, requests, rowLock, keyShare, pend, ins>>
reqVars == <<pc, kind, hdr, ts, user, value, idem, target, status, error, conn, began, committed>>
demoVars == <<recircle_users, recircle_current_user, dash>>
svcVars == <<dbVars, reqVars, initial, faults, issued>>
vars == <<credits, requests, rowLock, keyShare, pend, ins, pc, kind, hdr, ts, user,
          value, idem, target, status, error, conn, began, committed, initial, faults,
          issued, recircle_users, recircle_current_user, dash>>

NoRow == [id |-> NoUser, credits |-> 0]

Row(key, actor, tgt, amount, k) ==
  [id |-> key, actor_user_id |-> actor, target_user_id |-> tgt, amount |-> amount, kind |-> k]

\* Sum of f over a finite set
RECURSIVE SumOver(_, _)
SumOver(S, f) ==
  IF S = {} THEN 0
  ELSE LET x == CHOOSE y \in S : TRUE IN f[x] + SumOver(S \ {x}, f)

Signed(row) == IF row.kind = "ADD" THEN row.amount ELSE -row.amount

\* The balance the rows of a ledger give to user id
LedgerBalance(ledger, id) ==
  LET mine == {row \in ledger : row.target_user_id = id}
  IN SumOver(mine, [row \in mine |-> Signed(row)])

\* Ledgers the service can have committed before the run starts: none, or one
\* kiosk ADD of 30 to alice under key k1.
InitialLedgers == {{}, {Row("k1", IdOf("kiosk"), IdOf("alice"), 30, "ADD")}}

\* ----- the browser demo (localStorage) -----
\* recircle_users maps the usernames that have an account to their points
\* (the password plays no part in the points); a dashboard that has not run
\* loadDashboard, or that redirected to login.html, has no listeners.
DemoUsers == {"ann", "ben"}
Dashes == 1..NumDash
NoAccounts == [u \in {} |-> 0]
NoDash == [username |-> "", users |-> NoAccounts, message |-> ""]

Init ==
  /\ requests \in InitialLedgers
  /\ credits = [i \in UserIds |-> LedgerBalance(requests, i)]
  /\ initial = requests
  /\ faults = 0
  /\ rowLock = [i \in UserIds |-> 0]
  /\ keyShare = [i \in UserIds |-> {}]
  /\ pend = [r \in Reqs |-> NoRow]
  /\ ins = [r \in Reqs |-> {}]
  /\ pc = [r \in Reqs |-> "auth"]
  /\ kind = [r \in Reqs |-> ""]
  /\ hdr = [r \in Reqs |-> NoToken]
  /\ ts = [r \in Reqs |-> UnreadTs]
  /\ user = [r \in Reqs |-> NoUser]
  /\ value = [r \in Reqs |-> NoBody]
  /\ idem = [r \in Reqs |-> ""]
  /\ target = [r \in Reqs |-> NoRow]
  /\ status = [r \in Reqs |-> 0]
  /\ error = [r \in Reqs |-> ""]
  /\ conn = [r \in Reqs |-> "none"]
  /\ began = [r \in Reqs |-> FALSE]
  /\ committed = [r \in Reqs |-> FALSE]
  /\ issued = [r \in Reqs |-> NoToken]
  /\ recircle_users = NoAccounts
  /\ recircle_current_user = ""
  /\ dash = [d \in Dashes |-> NoDash]

\* res.status(code).json({error}) ends the request
Respond(r, res) ==
  /\ status' = [status EXCEPT ![r] = res.status]
  /\ error' = [error EXCEPT ![r] = res.error]
  /\ pc' = [pc EXCEPT ![r] = "done"]

\* ----- the middleware chain -----
\* auth(['KIOSK','ADMIN']) on /api/credits/add, auth(['MERCHANT','ADMIN']) on
\* /api/credits/deduct
Auth(r) ==
  /\ pc[r] = "auth"
  /\ \E k \in Kinds, tok \in AuthInputs :
       LET res == auth(RequiredRoles(k), tok) IN
       /\ kind' = [kind EXCEPT ![r] = k]
       /\ hdr' = [hdr EXCEPT ![r] = tok]
       /\ IF res.status # 0
          THEN Respond(r, res) /\ user' = user
          ELSE /\ user' = [user EXCEPT ![r] = tok.sub]
               /\ pc' = [pc EXCEPT ![r] = "ts"]
               /\ UNCHANGED <<status, error>>
  /\ UNCHANGED <<dbVars, ts, value, idem, target, conn, began, committed, initial, issued, demoVars, faults>>

\* the handler signs for one fixed account, not for the caller
qrFixedSubject(payload) == signQrToken(users[1].username)

\* the token GET /api/qr signs for the verified session payload
qr(payload) == signQrToken(payload.name)

\* GET /api/qr: auth(['USER']) and the handler, which has no await
Qr(r) ==
  /\ pc[r] = "auth"
  /\ \E tok \in AuthInputs :
       LET res == auth(TOKEN_ROLES_QR, tok) IN
       /\ kind' = [kind EXCEPT ![r] = "QR"]
       /\ hdr' = [hdr EXCEPT ![r] = tok]
       /\ IF res.status # 0
          THEN Respond(r, res) /\ UNCHANGED <<user, issued>>
          ELSE /\ user' = [user EXCEPT ![r] = tok.sub]
               /\ issued' = [issued EXCEPT ![r] = qr(tok)]
               /\ Respond(r, [status |-> 200, error |-> ""])
  /\ UNCHANGED <<dbVars, ts, value, idem, target, conn, began, committed, initial,
                 faults, demoVars>>

RequireTimestamp(r) ==
  /\ pc[r] = "ts"
  /\ \E h \in TsInputs :
       LET res == requireTimestamp(h) IN
       /\ ts' = [ts EXCEPT ![r] = h]
       /\ IF res.status # 0
          THEN Respond(r, res)
          ELSE pc' = [pc EXCEPT ![r] = "validate"] /\ UNCHANGED <<status, error>>
  /\ UNCHANGED <<dbVars, kind, hdr, user, value, idem, target, conn, began, committed, initial, issued, demoVars, faults>>

\* The handler up to pool.connect(): body validation, then the Idempotency-Key
\* header, then a client is checked out of the pool.
Validate(r) ==
  /\ pc[r] = "validate"
  /\ \E in \in HandlerInputs :
       LET msg == changeSchema(in.body)
           idempotencyKey == readIdempotencyKey(in.key)
       IN /\ value' = [value EXCEPT ![r] = in.body]
          /\ IF msg # ""
             THEN Respond(r, Fail(400, msg)) /\ UNCHANGED <<idem, conn>>
             ELSE IF idempotencyKey = ""
             THEN Respond(r, Fail(400, "Missing Idempotency-Key header"))
                  /\ UNCHANGED <<idem, conn>>
             ELSE /\ idem' = [idem EXCEPT ![r] = idempotencyKey]
                  /\ conn' = [conn EXCEPT ![r] = "held"]
                  /\ pc' = [pc EXCEPT ![r] = "begin"]
                  /\ UNCHANGED <<status, error>>
  /\ ts' = [ts EXCEPT ![r] = UnreadTs]
  /\ UNCHANGED <<dbVars, kind, hdr, user, target, began, committed, initial, issued, demoVars, faults>>


\* ----- the database -----
\* select without "for update" on a store whose writes do not lock either
CanLockForUpdateNoLock(r, id) == TRUE

\* A row can be locked FOR UPDATE when no other transaction holds it FOR UPDATE
\* or FOR KEY SHARE; FOR KEY SHARE conflicts with FOR UPDATE only.
CanLockForUpdate(r, id) == rowLock[id] \in {0, r} /\ keyShare[id] \subseteq {r}
CanKeyShare(r, id) == rowLock[id] \in {0, r}

\* requests.id without a unique index
UniqueViolationNever(key) == FALSE

\* requests.id is the primary key: a committed row with the key is a violation
UniqueViolation(key) == \E row \in requests : row.id = key
\* an uncommitted row with the key makes the insert wait for its transaction
InsertWaitsFor(r, key) == {q \in Reqs \ {r} : \E row \in ins[q] : row.id = key}

IsUuid(key) == key \in Uuids

ReleaseLocks(r) ==
  /\ rowLock' = [i \in UserIds |-> IF rowLock[i] = r THEN 0 ELSE rowLock[i]]
  /\ keyShare' = [i \in UserIds |-> keyShare[i] \ {r}]

\* ----- getTargetByTokenOrUsername, up to the query -----
\* the scan token decoded without jwt.verify and without the typ check
TargetUsernameUnverified(body) ==
  IF HasToken(body) THEN body.userToken.name ELSE body.targetUsername

\* the username looked up, or "" when the scan token is refused
TargetUsername(body) ==
  IF HasToken(body)
  THEN IF jwtVerify(body.userToken, "RS256") /\ body.userToken.typ = "QR"
       THEN body.userToken.name
       ELSE ""
  ELSE body.targetUsername

\* the check lets a deduct through whenever anything is left
InsufficientCreditsAnyLeft(current, amount) == current < 10

\* the check compares against zero, not against the amount
InsufficientCreditsOnlyEmpty(current, amount) == current <= 0

InsufficientCredits(current, amount) == current < amount

NewCredits(k, current, amount) ==
  IF k = "ADD" THEN current + amount ELSE current - amount

\* an exception in the try block: the catch block runs next
Throw(r, msg) ==
  /\ error' = [error EXCEPT ![r] = msg]
  /\ pc' = [pc EXCEPT ![r] = "catch"]

\* a release that hands back only a client whose connection is alive
releaseHealthyOnly(c) == IF c = "held" THEN "released" ELSE c

\* client.release() of the finally block: the checked-out client goes back to
\* the pool, whatever the state of its connection; releasing a client twice
\* throws
release(c) == IF c \in {"held", "lost"} THEN "released" ELSE "released twice"

\* ----- the transaction -----
Begin(r) ==
  /\ pc[r] = "begin"
  /\ began' = [began EXCEPT ![r] = TRUE]
  /\ pc' = [pc EXCEPT ![r] = "dup"]
  /\ UNCHANGED <<dbVars, kind, hdr, ts, user, value, idem, target, status, error,
                 conn, committed, initial, issued, demoVars, faults>>

\* the handler goes from BEGIN straight to target resolution
DupCheckSkipped(r) ==
  /\ pc[r] = "dup"
  /\ pc' = [pc EXCEPT ![r] = "resolve"]
  /\ UNCHANGED <<dbVars, kind, hdr, ts, user, value, idem, target, status, error,
                 conn, began, committed, initial, issued, demoVars, faults>>

\* select id from requests where id=$1
DupCheck(r) ==
  /\ pc[r] = "dup"
  /\ IF ~IsUuid(idem[r])
     THEN Throw(r, "invalid input syntax for type uuid")
     ELSE IF \E row \in requests : row.id = idem[r]
     THEN pc' = [pc EXCEPT ![r] = "duprollback"] /\ error' = error
     ELSE pc' = [pc EXCEPT ![r] = "resolve"] /\ error' = error
  /\ UNCHANGED <<dbVars, kind, hdr, ts, user, value, idem, target, status,
                 conn, began, committed, initial, issued, demoVars, faults>>

\* ROLLBACK; return res.status(409); finally client.release()
DupRollback(r) ==
  /\ pc[r] = "duprollback"
  /\ Respond(r, Fail(409, "Duplicate request"))
  /\ conn' = [conn EXCEPT ![r] = release(conn[r])]
  /\ pend' = [pend EXCEPT ![r] = NoRow]
  /\ ins' = [ins EXCEPT ![r] = {}]
  /\ ReleaseLocks(r)
  /\ UNCHANGED <<credits, requests, kind, hdr, ts, user, value, idem, target,
                 began, committed, initial, issued, demoVars, faults>>

\* getTargetByTokenOrUsername and, for a deduct, the balance check on its result
Resolve(r) ==
  /\ pc[r] = "resolve"
  /\ LET username == TargetUsername(value[r])
         id == IdOf(username)
     IN IF HasToken(value[r]) /\ username = ""
        THEN Throw(r, "Invalid QR token") /\ UNCHANGED <<rowLock, target>>
        ELSE IF id = NoUser
        THEN Throw(r, "Target not found") /\ UNCHANGED <<rowLock, target>>
        ELSE /\ CanLockForUpdate(r, id)
             /\ rowLock' = [rowLock EXCEPT ![id] = r]
             /\ target' = [target EXCEPT ![r] = [id |-> id, credits |-> credits[id]]]
             /\ IF kind[r] = "DEDUCT" /\ InsufficientCredits(credits[id], value[r].amount)
                THEN Throw(r, "Insufficient credits")
                ELSE pc' = [pc EXCEPT ![r] = "update"] /\ error' = error
  /\ UNCHANGED <<credits, requests, keyShare, pend, ins, kind, hdr, ts, user, value,
                 idem, status, conn, began, committed, initial, issued, demoVars, faults>>

\* update users set credits = credits +/- $1 where id=$2 returning credits
Update(r) ==
  /\ pc[r] = "update"
  /\ rowLock[target[r].id] = r
  /\ pend' = [pend EXCEPT ![r] =
                [id |-> target[r].id,
                 credits |-> NewCredits(kind[r], credits[target[r].id], value[r].amount)]]
  /\ pc' = [pc EXCEPT ![r] = "insert"]
  /\ UNCHANGED <<credits, requests, rowLock, keyShare, ins, kind, hdr, ts, user, value,
                 idem, target, status, error, conn, began, committed, initial, issued, demoVars, faults>>

\* insert into requests(...): the row and its primary-key index entry
Insert(r) ==
  /\ pc[r] = "insert"
  /\ IF UniqueViolation(idem[r])
     THEN Throw(r, "duplicate key value violates unique constraint") /\ ins' = ins
     ELSE /\ InsertWaitsFor(r, idem[r]) = {}
          /\ ins' = [ins EXCEPT ![r] =
                       {Row(idem[r], user[r], target[r].id, value[r].amount, kind[r])}]
          /\ pc' = [pc EXCEPT ![r] = "fk"]
          /\ error' = error
  /\ UNCHANGED <<credits, requests, rowLock, keyShare, pend, kind, hdr, ts, user, value,
                 idem, target, status, conn, began, committed, initial, issued, demoVars, faults>>

\* the insert's foreign-key checks: actor_user_id and target_user_id are
\* locked FOR KEY SHARE in users
ForeignKeys(r) ==
  /\ pc[r] = "fk"
  /\ CanKeyShare(r, user[r])
  /\ CanKeyShare(r, target[r].id)
  /\ keyShare' = [i \in UserIds |->
                    IF i \in {user[r], target[r].id} THEN keyShare[i] \cup {r}
                    ELSE keyShare[i]]
  /\ pc' = [pc EXCEPT ![r] = "commit"]
  /\ UNCHANGED <<credits, requests, rowLock, pend, ins, kind, hdr, ts, user, value,
                 idem, target, status, error, conn, began, committed, initial, issued, demoVars, faults>>

\* What COMMIT makes durable
CommittedCredits(r) ==
  IF pend[r].id = NoUser THEN credits
  ELSE [credits EXCEPT ![pend[r].id] = pend[r].credits]
CommittedRequests(r) == requests \cup ins[r]

\* the UPDATE ran outside the transaction: ROLLBACK does not undo it
RolledBackCreditsKeepsUpdate(r) ==
  IF pend[r].id = NoUser THEN credits
  ELSE [credits EXCEPT ![pend[r].id] = pend[r].credits]

\* What ROLLBACK leaves
RolledBackCredits(r) == credits
RolledBackRequests(r) == requests

\* COMMIT; res.json({success, credits}); finally client.release()
Commit(r) ==
  /\ pc[r] = "commit"
  /\ credits' = CommittedCredits(r)
  /\ requests' = CommittedRequests(r)
  /\ pend' = [pend EXCEPT ![r] = NoRow]
  /\ ins' = [ins EXCEPT ![r] = {}]
  /\ ReleaseLocks(r)
  /\ committed' = [committed EXCEPT ![r] = TRUE]
  /\ Respond(r, [status |-> 200, error |-> ""])
  /\ conn' = [conn EXCEPT ![r] = release(conn[r])]
  /\ UNCHANGED <<kind, hdr, ts, user, value, idem, target, began, initial, issued, demoVars, faults>>

\* catch (e): ROLLBACK; res.status(400).json({error: e.message}); finally
\* client.release()
Rollback(r) ==
  /\ pc[r] = "catch"
  /\ conn[r] = "held"
  /\ credits' = RolledBackCredits(r)
  /\ requests' = RolledBackRequests(r)
  /\ pend' = [pend EXCEPT ![r] = NoRow]
  /\ ins' = [ins EXCEPT ![r] = {}]
  /\ ReleaseLocks(r)
  /\ Respond(r, Fail(400, error[r]))
  /\ conn' = [conn EXCEPT ![r] = release(conn[r])]
  /\ UNCHANGED <<kind, hdr, ts, user, value, idem, target, began, committed, initial, issued, demoVars, faults>>

\* ----- deadlock detection -----
\* the transactions r's current statement waits for
WaitsFor(r) ==
  IF pc[r] = "resolve" /\ IdOf(TargetUsername(value[r])) # NoUser
  THEN LET id == IdOf(TargetUsername(value[r]))
       IN ({rowLock[id]} \cup keyShare[id]) \ {0, r}
  ELSE IF pc[r] = "insert" /\ ~UniqueViolation(idem[r])
  THEN InsertWaitsFor(r, idem[r])
  ELSE IF pc[r] = "fk"
  THEN {rowLock[user[r]], rowLock[target[r].id]} \ {0, r}
  ELSE {}

\* a database without deadlock detection: a wait in a cycle never ends
DeadlockedNever(r) == FALSE

RECURSIVE Reaches(_, _)
Reaches(S, n) ==
  IF n = 0 THEN S
  ELSE Reaches(S \cup UNION {WaitsFor(q) : q \in S}, n - 1)

Deadlocked(r) == r \in Reaches(WaitsFor(r), NumReq)

\* PostgreSQL ends a wait that is part of a cycle: the waiting statement fails
DeadlockAbort(r) ==
  /\ pc[r] \in {"resolve", "insert", "fk"}
  /\ Deadlocked(r)
  /\ Throw(r, "deadlock detected")
  /\ UNCHANGED <<dbVars, kind, hdr, ts, user, value, idem, target, status,
                 conn, began, committed, initial, issued, demoVars, faults>>

Next ==
  \E r \in Reqs :
    \/ Auth(r)
    \/ Qr(r)
    \/ RequireTimestamp(r)
    \/ Validate(r)
    \/ Begin(r)
    \/ DupCheck(r)
    \/ DupRollback(r)
    \/ Resolve(r)
    \/ Update(r)
    \/ Insert(r)
    \/ ForeignKeys(r)
    \/ Commit(r)
    \/ Rollback(r)
    \/ DeadlockAbort(r)

Spec == Init /\ [][Next]_vars

\* The event loop runs every continuation that is ready and the database
\* executes every statement that does not wait: a step that can be taken is
\* taken eventually.
SpecLive == Init /\ [][Next]_vars /\ WF_vars(Next)

\* ----- storage failures -----
\* A statement of the try block fails in the database or on the way to it
\* (the ROLLBACK of the duplicate branch included): nothing of it takes effect
QueryFail(r) ==
  /\ faults < MaxFaults
  /\ faults' = faults + 1
  /\ pc[r] \in {"begin", "dup", "duprollback", "resolve", "update", "insert", "fk"}
  /\ Throw(r, "storage failure")
  /\ UNCHANGED <<dbVars, kind, hdr, ts, user, value, idem, target, status,
                 conn, began, committed, initial, issued, demoVars>>

\* COMMIT throws: the server aborted the transaction and says so, or the
\* connection went down after the server made it durable and before the
\* client read the acknowledgement
CommitFail(r) ==
  /\ faults < MaxFaults
  /\ faults' = faults + 1
  /\ pc[r] = "commit"
  /\ Throw(r, "commit failure")
  /\ \E durable \in BOOLEAN :
       IF durable
       THEN /\ credits' = CommittedCredits(r)
            /\ requests' = CommittedRequests(r)
            /\ pend' = [pend EXCEPT ![r] = NoRow]
            /\ ins' = [ins EXCEPT ![r] = {}]
            /\ ReleaseLocks(r)
            /\ committed' = [committed EXCEPT ![r] = TRUE]
            /\ conn' = [conn EXCEPT ![r] = "lost"]
       ELSE UNCHANGED <<dbVars, committed, conn>>
  /\ UNCHANGED <<kind, hdr, ts, user, value, idem, target, status, began, initial, issued, demoVars>>

\* The ROLLBACK of the catch block throws, as it must on a connection that is
\* gone (the server aborts what was open on it): finally releases the client
\* and the exception leaves the handler.  Express 4 sends no response for the
\* rejected promise of an async handler; Express 5 hands it to the default
\* error handler, which answers 500.
RollbackFail(r) ==
  /\ pc[r] = "catch"
  /\ conn[r] = "lost" \/ faults < MaxFaults
  /\ faults' = IF conn[r] = "lost" THEN faults ELSE faults + 1
  /\ credits' = RolledBackCredits(r)
  /\ requests' = RolledBackRequests(r)
  /\ pend' = [pend EXCEPT ![r] = NoRow]
  /\ ins' = [ins EXCEPT ![r] = {}]
  /\ ReleaseLocks(r)
  /\ pc' = [pc EXCEPT ![r] = "done"]
  /\ \E handled \in BOOLEAN :
       status' = [status EXCEPT ![r] = IF handled THEN 500 ELSE 0]
  /\ conn' = [conn EXCEPT ![r] = release(conn[r])]
  /\ UNCHANGED <<kind, hdr, ts, user, value, idem, target, error, began,
                 committed, initial, issued, demoVars>>

NextFault ==
  \/ Next
  \/ \E r \in Reqs :
       \/ QueryFail(r)
       \/ CommitFail(r)
       \/ RollbackFail(r)

SpecFault == Init /\ [][NextFault]_vars

\* ----- the browser demo: the handlers of the localStorage pages -----
\* the data-cost attributes of the redeem buttons
Costs == {0, 10, 20}

\* getUsers(): a fresh copy of what localStorage holds
getUsers == recircle_users

\* the auth form, submitted with a username and a password that matches if
\* the account exists: an unknown username creates the account with zero
\* points and saves; either way the user is logged in
Submit(username) ==
  /\ LET users0 == getUsers IN
     recircle_users' =
       IF username \in DOMAIN users0 THEN recircle_users
       ELSE [u \in DOMAIN users0 \cup {username} |->
               IF u = username THEN 0 ELSE users0[u]]
  /\ recircle_current_user' = username
  /\ UNCHANGED <<dash, svcVars>>

\* loadDashboard() on a page load: it redirects to login.html when nobody is
\* logged in or the record is missing, else its listeners close over the
\* users map it read and over the user record in it
LoadDashboard(d) ==
  /\ LET username == recircle_current_user
         users0 == getUsers
     IN IF username = "" \/ username \notin DOMAIN users0
        THEN dash' = [dash EXCEPT ![d] = NoDash]
        ELSE dash' = [dash EXCEPT ![d] =
                        [username |-> username, users |-> users0, message |-> ""]]
  /\ UNCHANGED <<recircle_users, recircle_current_user, svcVars>>

\* click on add-points-btn: user.points += 10; saveUsers(users)
AddPoints(d) ==
  /\ dash[d].username # ""
  /\ dash[d].users[dash[d].username] < MaxPoints
  /\ LET saved == [dash[d].users EXCEPT ![dash[d].username] = @ + 10] IN
       /\ dash' = [dash EXCEPT ![d].users = saved]
       /\ recircle_users' = saved
  /\ UNCHANGED <<recircle_current_user, svcVars>>

\* the redeem handler subtracts whenever any points are left
CanRedeemAnyPoints(points, cost) == points > 0

\* if (user.points >= cost)
CanRedeem(points, cost) == points >= cost

\* click on a redeem-option button
Redeem(d) ==
  /\ dash[d].username # ""
  /\ \E cost \in Costs :
       LET points == dash[d].users[dash[d].username] IN
       IF CanRedeem(points, cost)
       THEN LET saved == [dash[d].users EXCEPT ![dash[d].username] = points - cost] IN
            /\ dash' = [dash EXCEPT ![d].users = saved,
                                    ![d].message = "Reward redeemed! Thank you for recycling."]
            /\ recircle_users' = saved
       ELSE /\ dash' = [dash EXCEPT ![d].message = "Not enough points to redeem this reward."]
            /\ recircle_users' = recircle_users
  /\ UNCHANGED <<recircle_current_user, svcVars>>

\* click on nav-logout: the current user is cleared and the page is left
Logout(d) ==
  /\ dash[d].username # ""
  /\ recircle_current_user' = ""
  /\ dash' = [dash EXCEPT ![d] = NoDash]
  /\ UNCHANGED <<recircle_users, svcVars>>

InitDemo == Init /\ requests = {}

NextDemo ==
  \/ \E username \in DemoUsers : Submit(username)
  \/ \E d \in Dashes :
       \/ LoadDashboard(d)
       \/ AddPoints(d)
       \/ Redeem(d)
       \/ Logout(d)

SpecDemo == InitDemo /\ [][NextDemo]_vars


\* ===== properties =====
Done(r) == pc[r] = "done"

\* the account a request's body resolves to, NoUser when it resolves to none
TargetId(r) == IdOf(TargetUsername(value[r]))
Delta(r) == IF kind[r] = "ADD" THEN value[r].amount ELSE -value[r].amount

\* The request has opened no transaction, resolved or locked no target and
\* written nothing.
Untouched(r) ==
  /\ ~began[r] /\ conn[r] = "none" /\ ~committed[r]
  /\ target[r] = NoRow /\ pend[r] = NoRow /\ ins[r] = {}
  /\ \A i \in UserIds : rowLock[i] # r /\ r \notin keyShare[i]
RejectedBy(r, step) == pc[r] = step /\ pc'[r] = "done"
StoreUnchanged == UNCHANGED <<credits, requests, rowLock, keyShare, pend, ins>>

\* C1: in every committed state the credits of every account are >= 0, for
\* any interleaving of the steps of concurrent ADD and DEDUCT transactions.
C1_NonNegativeCredits == \A i \in UserIds : credits[i] >= 0

\* Two deducts that the initial balance covers one by one but not together:
\* one committed, the other was refused for the balance the first one left.
C1_Witness ==
  \E r, q \in Reqs :
    /\ r # q
    /\ kind[r] = "DEDUCT" /\ kind[q] = "DEDUCT"
    /\ TargetId(r) = TargetId(q)
    /\ committed[r] /\ Done(q) /\ ~committed[q]
    /\ error[q] = "Insufficient credits"
    /\ LedgerBalance(initial, TargetId(q)) >= value[q].amount
    /\ LedgerBalance(initial, TargetId(q)) < value[q].amount + value[r].amount

\* transactions committed under key k, the initial ledger's included
CommittedWithKey(k) ==
  Cardinality({r \in Reqs : committed[r] /\ idem[r] = k})
    + Cardinality({row \in initial : row.id = k})

\* C2: for every idempotency key at most one ledger row and at most one
\* balance mutation are ever committed, however many requests carry the key,
\* one after the other or at once, against one target or several.
C2_AtMostOncePerKey ==
  \A k \in Uuids :
    /\ Cardinality({row \in requests : row.id = k}) <= 1
    /\ CommittedWithKey(k) <= 1

\* Two requests with one key and different targets both passed the existence
\* check; one committed and the insert of the other was rejected.
C2_Witness ==
  \E r, q \in Reqs :
    /\ r # q
    /\ idem[r] = idem[q] /\ TargetId(r) # TargetId(q)
    /\ committed[r] /\ Done(q) /\ ~committed[q]
    /\ error[q] = "duplicate key value violates unique constraint"

SameRequest(r, q) ==
  /\ kind[r] \in Kinds
  /\ kind[r] = kind[q] /\ hdr[r] = hdr[q] /\ value[r] = value[q] /\ idem[r] = idem[q]

\* C3: of n >= 2 submissions of the same request (same idempotency key) one
\* succeeds and every other one is answered 409 DuplicateRequest: whenever
\* two identical requests are both answered and one of them succeeded, the
\* other was answered 409.
C3_DuplicateAnswered409 ==
  \A r, q \in Reqs :
    (r # q /\ SameRequest(r, q) /\ Done(r) /\ Done(q) /\ status[r] = 200)
      => status[q] = 409

\* a deduct that read, under the row lock, a balance below its amount
Refused(r) ==
  /\ kind[r] = "DEDUCT"
  /\ target[r].id # NoUser
  /\ target[r].credits < value[r].amount
C4_RefusedState ==
  \A r \in Reqs :
    Refused(r) =>
      /\ pc[r] \in {"catch", "done"}
      /\ error[r] = "Insufficient credits"
      /\ ~committed[r] /\ pend[r] = NoRow /\ ins[r] = {}
      /\ Done(r) => status[r] = 400
      /\ pc[r] = "catch" => credits[target[r].id] = target[r].credits
C4_RefusedStep ==
  \A r \in Reqs :
    (Refused(r) /\ pc[r] = "catch" /\ pc'[r] = "done")
      => /\ credits' = credits
         /\ requests' = requests

\* C4: a DEDUCT whose amount exceeds the balance read under the row lock is
\* rejected with 400 "Insufficient credits"; it writes nothing, and when its
\* transaction is rolled back the balance is the one it read (not reduced,
\* not clamped to zero) and the ledger is as it was.
C4_InsufficientLeavesBalance == []C4_RefusedState /\ [][C4_RefusedStep]_vars

\* A deduct of more than the account holds was answered 400 and the balance
\* is still the one it read, which was not zero.
C4_Witness ==
  \E r \in Reqs :
    /\ Refused(r) /\ Done(r) /\ status[r] = 400
    /\ target[r].credits > 0
    /\ credits[target[r].id] = target[r].credits

CommittedAgainst(i) == {r \in Reqs : committed[r] /\ TargetId(r) = i}

\* C5: no lost update: the balance of every account is its initial balance
\* plus the committed ADD amounts minus the committed DEDUCT amounts of the
\* requests against it.
C5_NoLostUpdate ==
  \A i \in UserIds :
    credits[i] = LedgerBalance(initial, i)
                   + SumOver(CommittedAgainst(i), [r \in CommittedAgainst(i) |-> Delta(r)])

\* Two ADD 10 with distinct keys against one account both committed; the one
\* that got the row lock second read the balance the first one committed,
\* and the balance has grown by 20.
C5_Witness ==
  \E r, q \in Reqs :
    /\ r # q /\ idem[r] # idem[q]
    /\ kind[r] = "ADD" /\ kind[q] = "ADD"
    /\ value[r].amount = 10 /\ value[q].amount = 10
    /\ TargetId(r) = TargetId(q)
    /\ status[r] = 200 /\ status[q] = 200
    /\ target[q].credits = target[r].credits + 10
    /\ credits[TargetId(r)] = LedgerBalance(initial, TargetId(r)) + 20

\* C6: balance change and ledger insert are all-or-nothing: in every
\* committed state the credits of every account are the sum of the ADD rows
\* minus the sum of the DEDUCT rows of the ledger that target it, whatever
\* step of a transaction failed.
C6_BalanceMatchesLedger ==
  \A i \in UserIds : credits[i] = LedgerBalance(requests, i)

\* A transaction whose UPDATE and INSERT had run failed at COMMIT and has
\* been rolled back, next to a committed one against the same account.
C6_Witness ==
  \E r, q \in Reqs :
    /\ committed[q] /\ TargetId(q) = TargetId(r)
    /\ Done(r) /\ ~committed[r] /\ status[r] = 400
    /\ error[r] = "commit failure"

InternalErrors == {"deadlock detected", "storage failure", "commit failure"}
DuplicateErrors ==
  {"Duplicate request", "duplicate key value violates unique constraint"}

\* C7: a failed mutation is reported by kind: target not found 404,
\* duplicate key 409, insufficient credits 400, storage or internal failure
\* inside the transaction 500.
C7_StatusByKind ==
  \A r \in Reqs :
    (Done(r) /\ began[r] /\ status[r] # 200) =>
      /\ error[r] = "Target not found" => status[r] = 404
      /\ error[r] \in DuplicateErrors => status[r] = 409
      /\ error[r] = "Insufficient credits" => status[r] = 400
      /\ error[r] \in InternalErrors => status[r] = 500

SessionTokenValid(tok) == tok.alg = "HS256" /\ tok.state = "ok"
RoleMayRun(k, role) ==
  \/ k = "ADD" /\ role \in {"KIOSK", "ADMIN"}
  \/ k = "DEDUCT" /\ role \in {"MERCHANT", "ADMIN"}
AuthRan(r) == kind[r] \in Kinds
C8_GateState ==
  \A r \in Reqs :
    AuthRan(r) =>
      /\ ~SessionTokenValid(hdr[r]) => (Done(r) /\ status[r] = 401 /\ Untouched(r))
      /\ (SessionTokenValid(hdr[r]) /\ ~RoleMayRun(kind[r], hdr[r].role))
           => (Done(r) /\ status[r] = 403 /\ Untouched(r))
      /\ ~Untouched(r) => (SessionTokenValid(hdr[r]) /\ RoleMayRun(kind[r], hdr[r].role))
C8_GateStep == \A r \in Reqs : RejectedBy(r, "auth") => StoreUnchanged

\* C8: an ADD runs only for a valid session token of role KIOSK or ADMIN, a
\* DEDUCT only for one of role MERCHANT or ADMIN; a missing, invalid or
\* expired token is answered 401 and any other role 403, and in both cases
\* no transaction is opened, no target resolved or locked, nothing changed.
C8_AuthorizationGate == []C8_GateState /\ [][C8_GateStep]_vars

\* An expired token was answered 401 and a valid KIOSK token on the deduct
\* route 403.
C8_Witness ==
  \E r, q \in Reqs :
    /\ hdr[r].state = "expired" /\ status[r] = 401
    /\ kind[q] = "DEDUCT" /\ SessionTokenValid(hdr[q]) /\ hdr[q].role = "KIOSK"
    /\ status[q] = 403

OutsideWindow(h) ==
  \/ h.cls \in {"missing", "nan"}
  \/ h.cls = "date" /\ (h.age > 5 * 60 * 1000 \/ h.age < -(5 * 60 * 1000))
TimestampRead(r) == ts[r].cls # "unread"
C9_GateState ==
  \A r \in Reqs :
    TimestampRead(r) =>
      /\ OutsideWindow(ts[r]) => (Done(r) /\ status[r] = 400 /\ Untouched(r))
      /\ ~OutsideWindow(ts[r]) => (pc[r] = "validate" /\ status[r] = 0)
C9_GateStep == \A r \in Reqs : RejectedBy(r, "ts") => StoreUnchanged

\* C9: a request whose X-Request-Timestamp is missing, unparsable or more
\* than 5 minutes from server time, in the past or in the future, is answered
\* 400 by requireTimestamp before any transaction begins and changes nothing;
\* a request within the window passes on to the handler.
C9_TimestampGate == []C9_GateState /\ [][C9_GateStep]_vars

\* A request 10 minutes old and one a millisecond more than 5 minutes ahead
\* were answered 400.
C9_Witness ==
  \E r, q \in Reqs :
    /\ ts[r].cls = "date" /\ ts[r].age = 10 * 60 * 1000 /\ status[r] = 400
    /\ ts[q].cls = "date" /\ ts[q].age = -(5 * 60 * 1000 + 1) /\ status[q] = 400
    /\ error[q] = "Stale/early request"

BodyInvalid(b) ==
  \/ b.amount \notin {10, 20, 30}
  \/ (b.targetUsername # "" /\ b.userToken # NoToken)
  \/ (b.targetUsername = "" /\ b.userToken = NoToken)
ValidateRan(r) == value[r] # NoBody
C10_GateState ==
  \A r \in Reqs :
    (ValidateRan(r) /\ (BodyInvalid(value[r]) \/ idem[r] = ""))
      => (Done(r) /\ status[r] = 400 /\ Untouched(r))
C10_GateStep == \A r \in Reqs : RejectedBy(r, "validate") => StoreUnchanged

\* C10: an amount outside {10, 20, 30}, a body with both or neither of
\* targetUsername / userToken, or a missing Idempotency-Key header is
\* answered 400 by the handler before BEGIN: no transaction, no row lock,
\* nothing changed.
C10_ValidationGate == []C10_GateState /\ [][C10_GateStep]_vars

\* A body naming both target fields and a valid body without the key header
\* were answered 400.
C10_Witness ==
  \E r, q \in Reqs :
    /\ value[r].targetUsername # "" /\ value[r].userToken # NoToken /\ status[r] = 400
    /\ ~BodyInvalid(value[q]) /\ ValidateRan(q) /\ idem[q] = ""
    /\ status[q] = 400 /\ error[q] = "Missing Idempotency-Key header"

\* a scan token that is present and is signed with another key class, expired,
\* changed after signing, or without the scan type tag
BadScanToken(tok) ==
  /\ tok.alg # "none"
  /\ (tok.alg # "RS256" \/ tok.state # "ok" \/ tok.typ # "QR")
CauseOf(tok) ==
  IF tok.alg # "RS256" \/ tok.state = "tampered" THEN "InvalidToken"
  ELSE IF tok.state = "expired" THEN "ExpiredToken"
  ELSE "WrongTokenType"
\* the request got as far as target resolution and was turned away there
RejectedScanToken(r) ==
  /\ Done(r) /\ began[r] /\ BadScanToken(value[r].userToken)
  /\ IsUuid(idem[r]) /\ status[r] # 409
C11_NeverResolvesState ==
  \A r \in Reqs :
    BadScanToken(value[r].userToken) =>
      /\ target[r] = NoRow /\ pend[r] = NoRow /\ ins[r] = {} /\ ~committed[r]
      /\ \A i \in UserIds : rowLock[i] # r /\ r \notin keyShare[i]
      /\ pc[r] \notin {"update", "insert", "fk", "commit"}
      /\ RejectedScanToken(r) => (status[r] = 400 /\ error[r] = "Invalid QR token")
C11_NeverResolvesStep ==
  \A r \in Reqs :
    (BadScanToken(value[r].userToken) /\ pc[r] \in {"resolve", "catch"} /\ pc'[r] # pc[r])
      => /\ StoreUnchanged
         /\ pc[r] = "resolve" => (pc'[r] = "catch" /\ error'[r] = "Invalid QR token")

\* C11 (as the code has it): a scan token of the wrong key class, expired,
\* tampered or without the scan type tag never resolves a target: no account
\* is looked up or locked, the mutation fails, no balance and no ledger
\* record changes; the rejection is reported as 400 "Invalid QR token"
\* whatever the cause.
C11_BadScanTokenNeverResolves ==
  []C11_NeverResolvesState /\ [][C11_NeverResolvesStep]_vars

\* An expired scan token and a scan token without the type tag were both
\* turned away at resolution, and every balance is the initial one.
C11_Witness ==
  \E r, q \in Reqs :
    /\ RejectedScanToken(r) /\ CauseOf(value[r].userToken) = "ExpiredToken"
    /\ RejectedScanToken(q) /\ CauseOf(value[q].userToken) = "WrongTokenType"
    /\ error[r] = "Invalid QR token" /\ error[q] = "Invalid QR token"
    /\ \A i \in UserIds : credits[i] = LedgerBalance(initial, i)

\* C11 (as stated): the rejection of a scan token is reported according to
\* its cause: two rejections whose causes differ (InvalidToken, ExpiredToken,
\* WrongTokenType) carry different errors.
C11_ReportedByCause ==
  \A r, q \in Reqs :
    (RejectedScanToken(r) /\ RejectedScanToken(q)
       /\ CauseOf(value[r].userToken) # CauseOf(value[q].userToken))
      => error[r] # error[q]

\* the transaction of r is over on the server: nothing pending, no lock held
TransactionClosed(r) ==
  /\ pend[r] = NoRow /\ ins[r] = {}
  /\ \A i \in UserIds : rowLock[i] # r /\ r \notin keyShare[i]

\* C12: response/commit consistency: a success response is sent only after
\* the transaction committed, a failure response only after it was rolled
\* back or before any was opened; no request gets a failure response for a
\* transaction that committed, a failure at or after COMMIT included.
C12_ResponseMatchesCommit ==
  \A r \in Reqs :
    (kind[r] \in Kinds /\ status[r] # 0) =>
      /\ TransactionClosed(r)
      /\ status[r] = 200 => committed[r]
      /\ status[r] # 200 => ~committed[r]

\* C12, the half that holds whatever fails: a 200 is sent only for a
\* committed transaction, and every response follows the end of the
\* transaction.
C12_SuccessOnlyAfterCommit ==
  \A r \in Reqs :
    (kind[r] \in Kinds /\ status[r] # 0) =>
      /\ TransactionClosed(r)
      /\ status[r] = 200 => committed[r]

\* the session behind a request belongs to the account with this id
CallerOf(q) == hdr[q].sub
C13_SubjectState ==
  \A q \in Reqs :
    issued[q] # NoToken =>
      /\ kind[q] = "QR" /\ status[q] = 200
      /\ SessionTokenValid(hdr[q]) /\ users[CallerOf(q)].role = "USER"
      /\ jwtVerify(issued[q], "RS256") /\ issued[q].typ = "QR"
      /\ issued[q].name = users[CallerOf(q)].username
      /\ \A r \in Reqs :
           (committed[r] /\ value[r].userToken = issued[q]) =>
             /\ target[r].id = CallerOf(q)
             /\ \E row \in requests :
                  row.id = idem[r] /\ row.target_user_id = CallerOf(q)
C13_SubjectStep ==
  \A r \in Reqs :
    (~committed[r] /\ committed'[r] /\ HasToken(value[r])) =>
      \A i \in UserIds :
        IF users[i].username = value[r].userToken.name
        THEN credits'[i] = credits[i] + Delta(r)
        ELSE credits'[i] = credits[i]

\* C13: a scan token issued by GET /api/qr has as subject the username of
\* the authenticated caller and never another account, so a mutation that
\* names its target by a valid scan token changes the balance of exactly the
\* account that requested the token.
C13_ScanTokenNamesCaller == []C13_SubjectState /\ [][C13_SubjectStep]_vars

\* alice was issued a scan token, and an ADD 10 that named its target by that
\* token committed: her balance, and only hers, is 10 above the initial one.
C13_Witness ==
  \E r, q \in Reqs :
    /\ issued[q] # NoToken /\ users[CallerOf(q)].username = "alice"
    /\ kind[r] = "ADD" /\ committed[r] /\ value[r].userToken = issued[q]
    /\ \A i \in UserIds :
         credits[i] = LedgerBalance(initial, i) + (IF i = CallerOf(q) THEN 10 ELSE 0)

\* r's transaction is open and has resolved and locked account i
InCritical(r, i) == began[r] /\ ~Done(r) /\ ~committed[r] /\ target[r].id = i

\* C14: mutual exclusion per account: at most one open transaction is
\* between "target row resolved and locked" and "commit or rollback" for an
\* account; it holds the row lock, and the balance it read is the committed
\* balance, which no other transaction changes or reads in between.
C14_MutualExclusion ==
  \A i \in UserIds :
    /\ Cardinality({r \in Reqs : InCritical(r, i)}) <= 1
    /\ \A r \in Reqs :
         InCritical(r, i) => (rowLock[i] = r /\ target[r].credits = credits[i])

\* An ADD 10 to alice has committed and a second transaction against alice
\* is in its critical section: it read the balance the first one committed.
C14_Witness ==
  \E r, q \in Reqs :
    /\ r # q /\ committed[q] /\ kind[q] = "ADD" /\ value[q].amount = 10
    /\ target[q].id = IdOf("alice") /\ InCritical(r, IdOf("alice"))
    /\ target[r].credits = target[q].credits + 10
    /\ pc[r] \in {"update", "insert", "fk", "commit"}

\* the idempotency key of r is on a committed ledger row
KeyRecorded(r) == \E row \in requests : row.id = idem[r]
C15_DupState ==
  \A r \in Reqs :
    (\E row \in initial : row.id = idem[r]) =>
      /\ pc[r] \in {"begin", "dup", "duprollback", "done"}
      /\ target[r] = NoRow /\ TransactionClosed(r) /\ ~committed[r]
      /\ Done(r) => (status[r] = 409 /\ error[r] = "Duplicate request")
C15_DupStep ==
  \A r \in Reqs :
    /\ (pc[r] = "dup" /\ pc'[r] # "dup" /\ KeyRecorded(r)) => pc'[r] = "duprollback"
    /\ (pc[r] = "duprollback" /\ pc'[r] # "duprollback")
         => (status'[r] = 409 /\ target'[r] = NoRow /\ StoreUnchanged)

\* C15: the duplicate check is the first step of the transaction: a request
\* whose idempotency key is on a committed ledger row is answered 409
\* "Duplicate request" whether or not its target exists, its scan token is
\* valid or the balance would suffice; it resolves no target, takes no row
\* lock and changes nothing.
C15_DuplicateCheckFirst == []C15_DupState /\ [][C15_DupStep]_vars

\* Two requests under the recorded key were answered 409: one names an
\* account that does not exist, the other carries a scan token that does not
\* verify.
C15_Witness ==
  \E r, q \in Reqs :
    /\ KeyRecorded(r) /\ status[r] = 409 /\ value[r].targetUsername = "ghost"
    /\ KeyRecorded(q) /\ status[q] = 409 /\ BadScanToken(value[q].userToken)

\* the ledger row a request writes
RowOf(r) == Row(idem[r], user[r], target[r].id, value[r].amount, kind[r])
C16_FrameStep ==
  \A r \in Reqs :
    IF ~committed[r] /\ committed'[r]
    THEN /\ target[r].id = TargetId(r)
         /\ credits' = [credits EXCEPT ![target[r].id] = @ + Delta(r)]
         /\ RowOf(r) \notin requests
         /\ requests' = requests \cup {RowOf(r)}
    ELSE pc'[r] # pc[r] => (credits' = credits /\ requests' = requests)

\* C16, the part that holds whatever fails: the commit of an ADD or DEDUCT
\* changes the credits of the resolved target only, by the amount, and
\* appends exactly one ledger row; every other account (the actor's included)
\* and every earlier ledger row stay as they are, and no other step of any
\* request changes a balance or the ledger.
C16_Frame == [][C16_FrameStep]_vars

\* Next to a seeded ledger row, an ADD by an actor other than the target
\* committed, and a second request failed at its INSERT, after its UPDATE:
\* only the first one's target moved, by its amount, and the ledger has the
\* seeded row and one more.
C16_FrameWitness ==
  \E r, q \in Reqs :
    /\ committed[r] /\ kind[r] = "ADD" /\ user[r] # target[r].id
    /\ Done(q) /\ ~committed[q]
    /\ error[q] = "duplicate key value violates unique constraint"
    /\ initial # {} /\ requests = initial \cup {RowOf(r)} /\ RowOf(r) \notin initial
    /\ \A i \in UserIds :
         credits[i] = LedgerBalance(initial, i) + (IF i = target[r].id THEN Delta(r) ELSE 0)

Succeeded == {r \in Reqs : kind[r] \in Kinds /\ status[r] = 200}
SucceededAgainst(i) == {r \in Succeeded : TargetId(r) = i}

\* C16: frame: a committed ADD or DEDUCT changes the credits of its target
\* only and appends exactly one ledger row, and a mutation request that fails
\* for any reason leaves all balances and the ledger unchanged: once every
\* request has ended, the balances and the ledger are the initial ones plus
\* what the requests that succeeded wrote.
C16_OnlySuccessChanges ==
  (\A r \in Reqs : Done(r)) =>
    /\ \A i \in UserIds :
         credits[i] = LedgerBalance(initial, i)
                        + SumOver(SucceededAgainst(i),
                                  [r \in SucceededAgainst(i) |-> Delta(r)])
    /\ requests = initial \cup {RowOf(r) : r \in Succeeded}

\* C17: every mutation transaction that is started eventually ends in
\* commit or rollback and holds no row lock afterwards, and a transaction
\* that waits for a row lock does not wait for ever, whatever the concurrent
\* requests are: the same idempotency key, or an actor that is the target of
\* another request in flight.
C17_TransactionsEnd ==
  <>[](\A r \in Reqs : began[r] => (Done(r) /\ TransactionClosed(r)))

\* Two ADDs whose actors are each other's targets: each locked its target
\* and then needed the other's row for its foreign key; the database ended
\* the cycle, one was rolled back with "deadlock detected", the other
\* committed, and no lock is left.
C17_Witness ==
  \E r, q \in Reqs :
    /\ user[r] = target[q].id /\ user[q] = target[r].id /\ r # q
    /\ Done(r) /\ error[r] = "deadlock detected" /\ status[r] = 400
    /\ committed[q] /\ Done(q)
    /\ TransactionClosed(r) /\ TransactionClosed(q)

CheckedOut == {r \in Reqs : conn[r] \in {"held", "lost"}}
C18_ReleaseState ==
  /\ \A r \in Reqs :
       /\ conn[r] \in {"none", "held", "lost", "released"}
       /\ (r \in CheckedOut) <=> (pc[r] \in {"begin", "dup", "duprollback", "resolve",
                                             "update", "insert", "fk", "commit", "catch"})
       /\ Done(r) => conn[r] = (IF began[r] \/ error[r] \in InternalErrors
                                THEN "released" ELSE "none")
  /\ (\A r \in Reqs : Done(r)) => Cardinality(CheckedOut) = 0
C18_ReleaseStep ==
  \A r \in Reqs :
    /\ conn[r] = "released" => conn'[r] = "released"
    /\ (conn[r] # "released" /\ conn'[r] = "released")
         => (r \in CheckedOut /\ pc'[r] = "done")

\* C18: the client a mutation handler checked out of the pool is released
\* exactly once on every exit path (success, the duplicate early return, an
\* error thrown by any step, a ROLLBACK that itself fails): it is checked
\* out exactly while the handler is between pool.connect() and its end, and
\* when all handlers have finished no client is checked out.
C18_ConnectionReleased == []C18_ReleaseState /\ [][C18_ReleaseStep]_vars

\* One handler left through a ROLLBACK that failed and the other through
\* the duplicate early return; both clients are back in the pool.
C18_Witness ==
  \E r, q \in Reqs :
    /\ Done(r) /\ began[r] /\ error[r] # "" /\ status[r] \in {0, 500}
    /\ Done(q) /\ status[q] = 409
    /\ conn[r] = "released" /\ conn[q] = "released"

\* the points the listeners of dashboard d hold for its user
PointsOf(d) == dash[d].users[dash[d].username]
C19_PointsState ==
  /\ \A u \in DOMAIN recircle_users : recircle_users[u] >= 0
  /\ \A d \in Dashes : \A u \in DOMAIN dash[d].users : dash[d].users[u] >= 0
C19_RedeemStep ==
  \A d \in Dashes :
    (dash[d].username # "" /\ dash'[d].username = dash[d].username) =>
      /\ (dash'[d].message = "Reward redeemed! Thank you for recycling."
             /\ PointsOf(d)' < PointsOf(d)) =>
           /\ PointsOf(d) - PointsOf(d)' \in Costs
           /\ PointsOf(d) >= PointsOf(d) - PointsOf(d)'
           /\ recircle_users'[dash[d].username] = PointsOf(d)'
      /\ (dash'[d].message = "Not enough points to redeem this reward."
             /\ dash'[d].message # dash[d].message)
           => (dash'[d].users = dash[d].users /\ recircle_users' = recircle_users)

\* C19: in the browser demo, for any sequence of add-points and redeem
\* clicks with non-negative costs, from one or several dashboards each with
\* its own snapshot of the user records, the points stored for a user are
\* never negative: a redemption subtracts the cost only when the dashboard's
\* points are >= the cost and otherwise changes nothing.
C19_PointsNeverNegative == []C19_PointsState /\ [][C19_RedeemStep]_vars

\* Two dashboards of one user, each with its own snapshot: one redeemed down
\* to 0, the other holds 10 and was refused a reward; the account holds the
\* 10 the second one saved.
C19_Witness ==
  \E d, e \in Dashes :
    /\ d # e /\ dash[d].username # "" /\ dash[e].username = dash[d].username
    /\ PointsOf(d) = 0 /\ dash[d].message = "Reward redeemed! Thank you for recycling."
    /\ PointsOf(e) = 10 /\ dash[e].message = "Not enough points to redeem this reward."
    /\ recircle_users[dash[d].username] = 10

====
